---- MODULE Spec2Model ----
(***************************************************************************)
(* ImageCompressor (src/src/imageCompressor.ts) as a state machine.        *)
(*                                                                         *)
(* One compressImage invocation on one ImageCompressor instance.  The      *)
(* invocation is suspended at three awaits: the dimension probe            *)
(* (loadPromise), encoder call #1 and encoder call #2 (imageCompression).  *)
(* Each action is the synchronous code that runs between two awaits.       *)
(*                                                                         *)
(* Numbers.  Qualities are held in percent (0.6 is 60).  File sizes are    *)
(* bytes.  An optional value (undefined in the source) is the empty        *)
(* sequence, a present value v is <<v>>.                                   *)
(*                                                                         *)
(* Specifications.  Spec, SpecGeom and SpecLive run one invocation over    *)
(* different inputs (SpecLive under fairness); SpecUpdate adds             *)
(* updateSettings; SpecFormat calls formatFileSize; SpecPlugin is the      *)
(* Plugin of src/src/index.tsx around the ImageCompressor: init, destroy   *)
(* and an intercepted upload.                                              *)
(***************************************************************************)
EXTENDS Integers, Sequences, FiniteSets, TLC

VARIABLES
    settings,            \* this.settings
    file,                \* the File argument: [type, size]
    pc,                  \* where the invocation is
    error,               \* the error a failed invocation threw
    compressionQuality,  \* local compressionQuality (percent)
    options,             \* local options
    shouldAdjustSize,    \* local shouldAdjustSize
    originalDimensions,  \* local originalDimensions (undefined, or <<[width, height]>>)
    compressedFile,      \* size of attempt #1's output (undefined until it returns)
    forcedCompressedFile,\* size of attempt #2's output
    result,              \* the CompressionResult returned (undefined until Done)
    calls,               \* the encode requests handed to imageCompression, in order
    log,                 \* the events of the invocation, in order
    liveUrls,            \* object URLs created and not yet revoked
    canResult,           \* what the last canCompress call returned
    entrySettings,       \* this.settings as it was when compressImage was entered
    bytes,               \* the argument of the last formatFileSize call
    formatted,           \* the string the last formatFileSize call returned
    config,              \* the compressionSettings the host has stored for the plugin
    pluginSettings,      \* Plugin.settings
    upload,              \* Blinko.store.resourceStore.upload
    originalUploadFunction, \* Plugin.originalUploadFunction
    ipc,                 \* where the call of resourceStore.upload is
    uploadFile,          \* the File handed to resourceStore.upload
    uploaded             \* the files the host's own upload function received, in order

vars == <<settings, file, pc, error, compressionQuality, options, shouldAdjustSize,
          originalDimensions, compressedFile, forcedCompressedFile, result, calls,
          log, liveUrls, canResult, entrySettings, bytes, formatted, config,
          pluginSettings, upload, originalUploadFunction, ipc, uploadFile, uploaded>>

\* the state outside ImageCompressor
outside == <<bytes, formatted, config, pluginSettings, upload, originalUploadFunction,
             ipc, uploadFile, uploaded>>

locals == <<compressionQuality, options, shouldAdjustSize, originalDimensions,
            compressedFile, forcedCompressedFile, result>>

Undefined == <<>>
Some(v) == <<v>>
IsDefined(o) == o # <<>>
Val(o) == o[1]

Max(a, b) == IF a >= b THEN a ELSE b
Min(a, b) == IF a <= b THEN a ELSE b

(***************************************************************************)
(* Bounds of the model.                                                    *)
(***************************************************************************)
\* probed widths and heights are 1..MaxDim
MaxDim == 2
\* file sizes run from each size threshold to SizeSpread bytes above it
SizeSpread == 1
\* encoder outputs run from OutSpread below to OutSpread above nine tenths of the reference size
OutSpread == 1

(***************************************************************************)
(* Program constants.                                                      *)
(***************************************************************************)
OneMB == 1024 * 1024
HalfMB == 500 * 1024
LargeFileQuality == 50
MediumFileQuality == 60
PngQuality == 50
FullQuality == 100
RetryQualityDrop == 40
MinQuality == 10

ImageTypes == {"image/jpeg", "image/png", "image/webp", "image/gif"}

(***************************************************************************)
(* Inputs.                                                                 *)
(***************************************************************************)
FileTypes == ImageTypes \cup {"image/bmp"}
FileSizes ==
    {10, 2 * OneMB}
        \cup {HalfMB + d : d \in 0..SizeSpread}
        \cup {OneMB + d : d \in 0..SizeSpread}
Files == [type : FileTypes, size : FileSizes]

Qualities == {10, 60, 100}
Tristate == {"true", "false", "undefined"}
ScalePercents == {50, 100}
\* maxWidth and maxHeight are optional: 0 stands for an absent (falsy) value
MaxWidths == {0, 2}
MaxHeights == {1}

SettingsSpace(qs, sps, mws, mhs) ==
    [quality : qs, useQuality : Tristate, useScaling : BOOLEAN, scalePercent : sps,
     useSizeLimits : BOOLEAN, maxWidth : mws, maxHeight : mhs, enabled : BOOLEAN]

\* the sizes an encoder output is drawn from: around nine tenths of ref
EncodedSizes(ref) ==
    {s \in {(9 * ref) \div 10 + d : d \in (0 - OutSpread)..OutSpread} : s >= 1}

ProbedDimensions == [width : 1..MaxDim, height : 1..MaxDim]

(***************************************************************************)
(* IEEE-754 double arithmetic of the source, on the integers the model     *)
(* uses.  Math.floor(x * (m / t)) is the exact floor of x*m/t except where *)
(* the rounded quotient m/t makes the product fall just below an integer;  *)
(* RatioRoundsDown lists those triples for x, m, t <= 32, and              *)
(* ScaleRoundsDown the pairs <<d, p>> with d <= 64 where                   *)
(* Math.floor(d * (p / 100)) is one below the exact floor.                 *)
(* n * 0.8 and n * 0.9 never round below the exact product (0.8 and 0.9    *)
(* as doubles lie above four fifths and nine tenths), so floor(n * 0.8)    *)
(* and the comparisons with n * 0.9 are exact on integers.                 *)
(***************************************************************************)
RatioRoundsDown == {<<22, 15, 22>>, <<23, 13, 23>>, <<26, 15, 26>>}
ScaleRoundsDown == {<<50, 58>>}

\* Math.floor(x * (m / t))
FloorRatio(x, m, t) ==
    IF <<x, m, t>> \in RatioRoundsDown THEN (x * m) \div t - 1 ELSE (x * m) \div t

\* Math.floor(d * (p / 100))
FloorScale(d, p) ==
    IF <<d, p>> \in ScaleRoundsDown THEN (d * p) \div 100 - 1 ELSE (d * p) \div 100

\* Math.floor(n * 0.8)
FloorFourFifths(n) == (4 * n) \div 5

(***************************************************************************)
(* Mutants of canCompress                                                  *)
(***************************************************************************)
\* the enabled switch is not consulted
CanCompressIgnoresEnabled(s, f) == f.type \in ImageTypes

\* image/gif is missing from the whitelist
CanCompressNoGif(s, f) ==
    IF ~s.enabled THEN FALSE ELSE f.type \in {"image/jpeg", "image/png", "image/webp"}

(***************************************************************************)
(* canCompress                                                             *)
(***************************************************************************)
CanCompress(s, f) ==
    IF ~s.enabled THEN FALSE ELSE f.type \in ImageTypes

(***************************************************************************)
(* compressImage: quality planning and the options of attempt #1           *)
(***************************************************************************)
\* mutant: the thresholds are inclusive
SizeCappedQualityInclusive(q, size) ==
    IF size >= OneMB THEN Min(q, LargeFileQuality)
    ELSE IF size >= HalfMB THEN Min(q, MediumFileQuality)
    ELSE q

\* compressionQuality after the size caps
SizeCappedQuality(q, size) ==
    IF size > OneMB THEN Min(q, LargeFileQuality)
    ELSE IF size > HalfMB THEN Min(q, MediumFileQuality)
    ELSE q

\* mutant: the PNG cap is left out
PlannedQualityNoPngCap(s, f) == SizeCappedQuality(s.quality, f.size)

\* mutant: the PNG rule takes the larger value
PlannedQualityPngMax(s, f) ==
    LET q == SizeCappedQuality(s.quality, f.size)
    IN  IF f.type = "image/png" THEN Max(q, PngQuality) ELSE q

\* compressionQuality after the size caps and the PNG cap
PlannedQuality(s, f) ==
    LET q == SizeCappedQuality(s.quality, f.size)
    IN  IF f.type = "image/png" THEN Min(q, PngQuality) ELSE q

\* mutant: an absent useQuality counts as false
InitialQualityTruthy(s, q) ==
    IF s.useQuality = "true" THEN q ELSE FullQuality

\* options.initialQuality
InitialQuality(s, q) ==
    IF s.useQuality # "false" THEN q ELSE FullQuality

\* the options literal
InitialOptions(s, f, q) ==
    [initialQuality       |-> InitialQuality(s, q),
     alwaysKeepResolution |-> ~s.useScaling /\ ~s.useSizeLimits,
     fileType             |-> f.type,
     maxWidthOrHeight     |-> Undefined]

(***************************************************************************)
(* compressImage: dimension planning                                       *)
(***************************************************************************)
\* targetWidth, targetHeight after the percentage scaling
Scaled(s, d) ==
    IF s.useScaling /\ s.scalePercent # 0 /\ s.scalePercent < 100
    THEN [width  |-> FloorScale(d.width, s.scalePercent),
          height |-> FloorScale(d.height, s.scalePercent)]
    ELSE d

\* mutant: the ratio of the width check is inverted
WidthClampedInverted(s, t) ==
    IF t.width > s.maxWidth
    THEN [width |-> s.maxWidth, height |-> (t.height * t.width) \div s.maxWidth]
    ELSE t

\* the width check of the size limits
WidthClamped(s, t) ==
    IF t.width > s.maxWidth
    THEN [width |-> s.maxWidth, height |-> FloorRatio(t.height, s.maxWidth, t.width)]
    ELSE t

\* mutant: the ratio of the height check is inverted
HeightClampedInverted(s, t) ==
    IF t.height > s.maxHeight
    THEN [width |-> (t.width * t.height) \div s.maxHeight, height |-> s.maxHeight]
    ELSE t

\* the height check of the size limits
HeightClamped(s, t) ==
    IF t.height > s.maxHeight
    THEN [width |-> FloorRatio(t.width, s.maxHeight, t.height), height |-> s.maxHeight]
    ELSE t

\* targetWidth, targetHeight after scaling and size limits
Target(s, d) ==
    LET t == Scaled(s, d)
    IN  IF s.useSizeLimits /\ s.maxWidth # 0 /\ s.maxHeight # 0
        THEN HeightClamped(s, WidthClamped(s, t))
        ELSE t

\* mutant: the bound is the target width, not the longer edge
WithResizeWidthOnly(opts, d, t) ==
    IF t.width # d.width \/ t.height # d.height
    THEN [opts EXCEPT !.maxWidthOrHeight = Some(t.width),
                      !.alwaysKeepResolution = FALSE]
    ELSE opts

\* options after the final size parameters are set
WithResize(opts, d, t) ==
    IF t.width # d.width \/ t.height # d.height
    THEN [opts EXCEPT !.maxWidthOrHeight = Some(Max(t.width, t.height)),
                      !.alwaysKeepResolution = FALSE]
    ELSE opts

\* mutant: without usable dimensions the configured limit becomes the bound
PlannedOptionsLimitFallback(s, opts, should, dims) ==
    IF should /\ IsDefined(dims) /\ Val(dims).width > 0 /\ Val(dims).height > 0
    THEN WithResize(opts, Val(dims), Target(s, Val(dims)))
    ELSE IF s.useSizeLimits /\ s.maxWidth # 0
         THEN [opts EXCEPT !.maxWidthOrHeight = Some(Max(s.maxWidth, s.maxHeight))]
         ELSE opts

\* options as handed to encoder call #1
PlannedOptions(s, opts, should, dims) ==
    IF should /\ IsDefined(dims) /\ Val(dims).width > 0 /\ Val(dims).height > 0
    THEN WithResize(opts, Val(dims), Target(s, Val(dims)))
    ELSE opts

(***************************************************************************)
(* compressImage: evaluation and retry                                     *)
(***************************************************************************)
\* mutant: the retry test is strict
ShouldRetryStrict(size1, fileSize) == 10 * size1 > 9 * fileSize

\* compressedFile.size >= file.size * 0.9
ShouldRetry(size1, fileSize) == 10 * size1 >= 9 * fileSize

\* forcedOptions.initialQuality
ForcedQuality(q) == Max(MinQuality, q - RetryQualityDrop)

\* forcedOptions.maxWidthOrHeight
ForcedBound(s, opts) ==
    IF IsDefined(opts.maxWidthOrHeight) /\ Val(opts.maxWidthOrHeight) # 0
    THEN Some(FloorFourFifths(Val(opts.maxWidthOrHeight)))
    ELSE IF s.maxWidth # 0
         THEN Some(FloorFourFifths(Max(s.maxWidth, s.maxHeight)))
         ELSE Undefined

ForcedOptions(s, opts, q) ==
    [opts EXCEPT !.initialQuality = ForcedQuality(q),
                 !.maxWidthOrHeight = ForcedBound(s, opts)]

\* mutant: any smaller retry output is adopted
RetryIsSmaller(size2, size1) == size2 < size1

\* mutant: the boundary is adopted
RetryIsBetterInclusive(size2, size1) == 10 * size2 <= 9 * size1

\* forcedCompressedFile.size < compressedFile.size * 0.9
RetryIsBetter(size2, size1) == 10 * size2 < 9 * size1

\* mutant: compressionRatio is the fraction saved, 1 - compressedSize / originalSize
MakeResultReduction(f, size, attempt) ==
    [originalSize |-> f.size, compressedSize |-> size, attempt |-> attempt,
     compressionRatio |-> [num |-> f.size - size, den |-> f.size]]

\* result / forcedResult; compressionRatio is the quotient num / den
MakeResult(f, size, attempt) ==
    [originalSize |-> f.size, compressedSize |-> size, attempt |-> attempt,
     compressionRatio |-> [num |-> size, den |-> f.size]]

(***************************************************************************)
(* formatFileSize.  A byte count is held as [n, shift], the number         *)
(* n * 1024^shift, so that counts of a terabyte and more can be written;   *)
(* every such count with n < 2^21 is an exact double.                      *)
(***************************************************************************)
\* const k = 1024
UnitBase == 1024
\* const sizes = ['Bytes', 'KB', 'MB', 'GB'], index 0 first
sizes == <<"Bytes", "KB", "MB", "GB">>

ByteCount(n, shift) == [n |-> n, shift |-> shift]

RECURSIVE Pow(_, _)
\* Math.pow(k, i)
Pow(k, i) == IF i = 0 THEN 1 ELSE k * Pow(k, i - 1)

RECURSIVE FloorLog(_, _)
\* Math.floor(Math.log(n) / Math.log(k)) for n >= 1: the quotient of the two doubles
\* lies on the right side of every integer for the counts of the model
FloorLog(n, k) == IF n < k THEN 0 ELSE 1 + FloorLog(n \div k, k)

\* const i = Math.floor(Math.log(bytes) / Math.log(k))
UnitIndex(b) == b.shift + FloorLog(b.n, UnitBase)

\* sizes[i]: an index past the end of the array reads undefined, printed "undefined"
SizeLabel(i) == IF i + 1 \in DOMAIN sizes THEN sizes[i + 1] ELSE "undefined"

\* (bytes / Math.pow(k, i)).toFixed(2), as a count of hundredths: the quotient is an
\* exact double (a division by a power of two) and toFixed takes the nearest
\* hundredth, the larger one of two equally near
Hundredths(b) ==
    LET p == Pow(UnitBase, FloorLog(b.n, UnitBase))
    IN  (200 * b.n + p) \div (2 * p)

DigitChars == <<"0", "1", "2", "3", "4", "5", "6", "7", "8", "9">>

RECURSIVE Numeral(_)
\* the decimal numeral of a natural number
Numeral(n) ==
    IF n < 10 THEN DigitChars[n + 1] ELSE Numeral(n \div 10) \o DigitChars[(n % 10) + 1]

\* parseFloat(x.toFixed(2)) + ' ': the number of h hundredths as the number-to-string
\* conversion prints it, without trailing zeros in the fraction
NumberText(h) ==
    Numeral(h \div 100)
        \o (IF h % 100 = 0 THEN ""
            ELSE "." \o DigitChars[((h % 100) \div 10) + 1]
                     \o (IF h % 10 = 0 THEN "" ELSE DigitChars[(h % 10) + 1]))

\* static formatFileSize(bytes)
FormatFileSize(b) ==
    IF b.n = 0 THEN "0 Bytes"
    ELSE NumberText(Hundredths(b)) \o " " \o SizeLabel(UnitIndex(b))

(***************************************************************************)
(* The state machine                                                       *)
(***************************************************************************)
NotEligible == "File cannot be compressed"
CodecError == "CodecError"

ProbeFailed == [width |-> 0, height |-> 0]

\* DEFAULT_SETTINGS (maintainSize is deprecated and read nowhere)
DefaultSettings ==
    [quality       |-> 60,
     useQuality    |-> "true",
     useScaling    |-> FALSE,
     scalePercent  |-> 100,
     useSizeLimits |-> FALSE,
     maxWidth      |-> 1920,
     maxHeight     |-> 1080,
     enabled       |-> TRUE]

\* an ImageCompressor holding one of the settings ss, about to be given one of the files fs
InitInvocation(ss, fs) ==
    /\ settings \in ss
    /\ file \in fs
    /\ pc = "start"
    /\ error = ""
    /\ compressionQuality = 0
    /\ options = Undefined
    /\ shouldAdjustSize = FALSE
    /\ originalDimensions = Undefined
    /\ compressedFile = Undefined
    /\ forcedCompressedFile = Undefined
    /\ result = Undefined
    /\ calls = <<>>
    /\ log = <<>>
    /\ liveUrls = 0
    /\ canResult = "none"
    /\ entrySettings = Undefined

\* the Plugin as constructed, before init: nothing intercepted, nothing uploaded
PluginConstructed ==
    /\ config = Undefined
    /\ pluginSettings = settings
    /\ upload = "host"
    /\ originalUploadFunction = "null"
    /\ ipc = "idle"
    /\ uploadFile = file
    /\ uploaded = <<>>

InitOver(ss, fs) ==
    /\ InitInvocation(ss, fs)
    /\ PluginConstructed
    /\ bytes = ByteCount(0, 0)
    /\ formatted = ""

Init == InitOver(SettingsSpace(Qualities, ScalePercents, MaxWidths, MaxHeights), Files)

\* canCompress(file), called by the host at any time
CanCompressCall ==
    /\ canResult' = IF CanCompress(settings, file) THEN "true" ELSE "false"
    /\ UNCHANGED <<settings, file, pc, error, calls, log, liveUrls>>
    /\ UNCHANGED locals
    /\ UNCHANGED <<entrySettings, outside>>

\* mutant: the forced attempt is started together with attempt #1
IssueBothCalls(opts, events) ==
    /\ options' = opts
    /\ calls' = calls \o <<opts, ForcedOptions(settings, opts, opts.initialQuality)>>
    /\ log' = log \o events \o <<"call1", "call2">>
    /\ pc' = "encode1"

\* await imageCompression(file, options): hand request #1 to the encoder
IssueCall1(opts, events) ==
    /\ options' = opts
    /\ calls' = Append(calls, opts)
    /\ log' = log \o events \o <<"call1">>
    /\ pc' = "encode1"

\* compressImage on a file canCompress rejects: throws at once
Reject ==
    /\ pc = "start"
    /\ ~CanCompress(settings, file)
    /\ pc' = "failed"
    /\ error' = NotEligible
    /\ log' = Append(log, "reject")
    /\ UNCHANGED <<settings, file, calls, liveUrls, canResult>>
    /\ UNCHANGED locals
    /\ entrySettings' = Some(settings)
    /\ UNCHANGED outside

\* compressImage with neither useScaling nor useSizeLimits: no probe, straight to attempt #1
StartNoProbe ==
    /\ pc = "start"
    /\ CanCompress(settings, file)
    /\ ~(settings.useScaling \/ settings.useSizeLimits)
    /\ compressionQuality' = PlannedQuality(settings, file)
    /\ shouldAdjustSize' = FALSE
    /\ IssueCall1(PlannedOptions(settings,
                                 InitialOptions(settings, file, PlannedQuality(settings, file)),
                                 FALSE, originalDimensions), <<>>)
    /\ UNCHANGED <<settings, file, error, liveUrls, canResult, originalDimensions,
                   compressedFile, forcedCompressedFile, result>>
    /\ entrySettings' = Some(settings)
    /\ UNCHANGED outside

\* compressImage with useScaling or useSizeLimits: creates the object URL and awaits the probe
StartProbe ==
    /\ pc = "start"
    /\ CanCompress(settings, file)
    /\ settings.useScaling \/ settings.useSizeLimits
    /\ compressionQuality' = PlannedQuality(settings, file)
    /\ options' = InitialOptions(settings, file, PlannedQuality(settings, file))
    /\ shouldAdjustSize' = TRUE
    /\ liveUrls' = liveUrls + 1
    /\ log' = Append(log, "probe")
    /\ pc' = "probe"
    /\ UNCHANGED <<settings, file, error, calls, canResult, originalDimensions,
                   compressedFile, forcedCompressedFile, result>>
    /\ entrySettings' = Some(settings)
    /\ UNCHANGED outside

\* the same, but new Image() or URL.createObjectURL throws: the catch clears shouldAdjustSize
StartProbeThrows ==
    /\ pc = "start"
    /\ CanCompress(settings, file)
    /\ settings.useScaling \/ settings.useSizeLimits
    /\ compressionQuality' = PlannedQuality(settings, file)
    /\ shouldAdjustSize' = FALSE
    /\ IssueCall1(PlannedOptions(settings,
                                 InitialOptions(settings, file, PlannedQuality(settings, file)),
                                 FALSE, originalDimensions), <<"probeThrow">>)
    /\ UNCHANGED <<settings, file, error, liveUrls, canResult, originalDimensions,
                   compressedFile, forcedCompressedFile, result>>
    /\ entrySettings' = Some(settings)
    /\ UNCHANGED outside

\* loadPromise resolves with d: revoke the URL, plan the dimensions, issue attempt #1
ProbeResolved(d, event) ==
    /\ pc = "probe"
    /\ originalDimensions' = Some(d)
    /\ liveUrls' = liveUrls - 1
    /\ IssueCall1(PlannedOptions(settings, options, shouldAdjustSize, Some(d)), <<event>>)
    /\ UNCHANGED <<settings, file, error, canResult, compressionQuality, shouldAdjustSize,
                   compressedFile, forcedCompressedFile, result>>
    /\ UNCHANGED <<entrySettings, outside>>

\* img.onload
ProbeLoaded == \E d \in ProbedDimensions : ProbeResolved(d, "loaded")

\* mutant: a failed probe aborts the invocation
ProbeErrorAborts ==
    /\ pc = "probe"
    /\ originalDimensions' = Some(ProbeFailed)
    /\ liveUrls' = liveUrls - 1
    /\ pc' = "failed"
    /\ error' = CodecError
    /\ log' = Append(log, "probeError")
    /\ UNCHANGED <<settings, file, calls, canResult, compressionQuality, options,
                   shouldAdjustSize, compressedFile, forcedCompressedFile, result>>
    /\ UNCHANGED <<entrySettings, outside>>

\* mutant: a failed probe leaves the object URL unrevoked
ProbeErrorLeaks ==
    /\ pc = "probe"
    /\ originalDimensions' = Some(ProbeFailed)
    /\ IssueCall1(PlannedOptions(settings, options, shouldAdjustSize, Some(ProbeFailed)),
                  <<"probeError">>)
    /\ UNCHANGED <<settings, file, error, canResult, compressionQuality, shouldAdjustSize,
                   compressedFile, forcedCompressedFile, result, liveUrls>>
    /\ UNCHANGED <<entrySettings, outside>>

\* img.onerror
ProbeError == ProbeResolved(ProbeFailed, "probeError")

\* imageCompression #1 throws: the outer catch rethrows
Encode1Throws ==
    /\ pc = "encode1"
    /\ pc' = "failed"
    /\ error' = CodecError
    /\ log' = Append(log, "throw1")
    /\ UNCHANGED <<settings, file, calls, liveUrls, canResult>>
    /\ UNCHANGED locals
    /\ UNCHANGED <<entrySettings, outside>>

\* imageCompression #1 returns a file that is small enough: return result
Encode1Accepted ==
    /\ pc = "encode1"
    /\ \E size \in EncodedSizes(file.size) :
        /\ ~ShouldRetry(size, file.size)
        /\ compressedFile' = Some(size)
        /\ result' = Some(MakeResult(file, size, 1))
    /\ pc' = "done"
    /\ log' = log \o <<"return1", "eval1">>
    /\ UNCHANGED <<settings, file, error, calls, liveUrls, canResult, compressionQuality,
                   options, shouldAdjustSize, originalDimensions, forcedCompressedFile>>
    /\ UNCHANGED <<entrySettings, outside>>

\* imageCompression #1 returns a file that is not small enough: issue the forced attempt
Encode1Retries ==
    /\ pc = "encode1"
    /\ \E size \in EncodedSizes(file.size) :
        /\ ShouldRetry(size, file.size)
        /\ compressedFile' = Some(size)
    /\ calls' = Append(calls, ForcedOptions(settings, options, compressionQuality))
    /\ pc' = "encode2"
    /\ log' = log \o <<"return1", "eval1", "call2">>
    /\ UNCHANGED <<settings, file, error, liveUrls, canResult, compressionQuality, options,
                   shouldAdjustSize, originalDimensions, forcedCompressedFile, result>>
    /\ UNCHANGED <<entrySettings, outside>>

\* mutant: the error of the forced attempt reaches the outer catch
Encode2ThrowsPropagates ==
    /\ pc = "encode2"
    /\ pc' = "failed"
    /\ error' = CodecError
    /\ log' = Append(log, "throw2")
    /\ UNCHANGED <<settings, file, calls, liveUrls, canResult>>
    /\ UNCHANGED locals
    /\ UNCHANGED <<entrySettings, outside>>

\* imageCompression #2 throws: the inner catch swallows it, result is returned
Encode2Throws ==
    /\ pc = "encode2"
    /\ result' = Some(MakeResult(file, Val(compressedFile), 1))
    /\ pc' = "done"
    /\ log' = Append(log, "throw2")
    /\ UNCHANGED <<settings, file, error, calls, liveUrls, canResult, compressionQuality,
                   options, shouldAdjustSize, originalDimensions, compressedFile,
                   forcedCompressedFile>>
    /\ UNCHANGED <<entrySettings, outside>>

\* what imageCompression #2 returns
Encode2Returned(size) ==
    /\ pc = "encode2"
    /\ forcedCompressedFile' = Some(size)
    /\ pc' = "done"
    /\ log' = log \o <<"return2", "eval2">>
    /\ UNCHANGED <<settings, file, error, calls, liveUrls, canResult, compressionQuality,
                   options, shouldAdjustSize, originalDimensions, compressedFile>>
    /\ UNCHANGED <<entrySettings, outside>>

\* imageCompression #2 returns a file that beats attempt #1: return forcedResult
Encode2Adopted ==
    /\ pc = "encode2"
    /\ \E size \in EncodedSizes(Val(compressedFile)) :
        /\ RetryIsBetter(size, Val(compressedFile))
        /\ Encode2Returned(size)
        /\ result' = Some(MakeResult(file, size, 2))

\* mutant: a discarded retry starts over with attempt #1
Encode2DiscardedStartsOver ==
    /\ pc = "encode2"
    /\ \E size \in EncodedSizes(Val(compressedFile)) :
        /\ ~RetryIsBetter(size, Val(compressedFile))
        /\ forcedCompressedFile' = Some(size)
    /\ pc' = "encode1"
    /\ log' = log \o <<"return2", "eval2">>
    /\ UNCHANGED <<settings, file, error, calls, liveUrls, canResult, compressionQuality,
                   options, shouldAdjustSize, originalDimensions, compressedFile, result>>
    /\ UNCHANGED <<entrySettings, outside>>

\* imageCompression #2 returns a file that does not: fall through to return result
Encode2Discarded ==
    /\ pc = "encode2"
    /\ \E size \in EncodedSizes(Val(compressedFile)) :
        /\ ~RetryIsBetter(size, Val(compressedFile))
        /\ Encode2Returned(size)
        /\ result' = Some(MakeResult(file, Val(compressedFile), 1))

Next ==
    \/ CanCompressCall
    \/ Reject
    \/ StartNoProbe
    \/ StartProbe
    \/ StartProbeThrows
    \/ ProbeLoaded
    \/ ProbeError
    \/ Encode1Throws
    \/ Encode1Accepted
    \/ Encode1Retries
    \/ Encode2Throws
    \/ Encode2Adopted
    \/ Encode2Discarded

Spec == Init /\ [][Next]_vars

(***************************************************************************)
(* The same machine under fairness.  The synchronous code from the call to *)
(* the first await runs to completion, and the browser settles every       *)
(* promise the invocation awaits: the image fires onload or onerror, and   *)
(* each imageCompression call returns or throws.                           *)
(***************************************************************************)
Enter == Reject \/ StartNoProbe \/ StartProbe \/ StartProbeThrows
ProbeSettles == ProbeLoaded \/ ProbeError
Encode1Settles == Encode1Throws \/ Encode1Accepted \/ Encode1Retries
Encode2Settles == Encode2Throws \/ Encode2Adopted \/ Encode2Discarded

\* one quality: termination does not depend on it
InitLive == InitOver(SettingsSpace({60}, ScalePercents, MaxWidths, MaxHeights), Files)

SpecLive ==
    /\ InitLive
    /\ [][Next]_vars
    /\ WF_vars(Enter)
    /\ WF_vars(ProbeSettles)
    /\ WF_vars(Encode1Settles)
    /\ WF_vars(Encode2Settles)

(***************************************************************************)
(* The same machine over inputs that exercise the dimension planning: one  *)
(* file and one quality, many dimensions, percentages and limits.          *)
(***************************************************************************)
\* probed widths and heights are 1..GeomMaxDim, and 22
GeomMaxDim == 4
\* maxWidth and maxHeight are 0..GeomMaxLimit, and the larger values below
GeomMaxLimit == 3

GeomDims == (1..GeomMaxDim) \cup {22}
WideDimensions == [width : GeomDims, height : GeomDims]
GeomScalePercents == {10, 50, 99, 100}
GeomMaxWidths == (0..GeomMaxLimit) \cup {15, 800}
GeomMaxHeights == (0..GeomMaxLimit) \cup {600}
GeomSettings ==
    {s \in SettingsSpace({60}, GeomScalePercents, GeomMaxWidths, GeomMaxHeights) :
        s.useQuality = "true"}
GeomFiles == [type : {"image/jpeg"}, size : {10}]

InitGeom == InitOver(GeomSettings, GeomFiles)

\* img.onload
ProbeLoadedWide == \E d \in WideDimensions : ProbeResolved(d, "loaded")

NextGeom ==
    \/ CanCompressCall
    \/ Reject
    \/ StartNoProbe
    \/ StartProbe
    \/ StartProbeThrows
    \/ ProbeLoadedWide
    \/ ProbeError
    \/ Encode1Throws
    \/ Encode1Accepted
    \/ Encode1Retries
    \/ Encode2Throws
    \/ Encode2Adopted
    \/ Encode2Discarded

SpecGeom == InitGeom /\ [][NextGeom]_vars

(***************************************************************************)
(* The same machine with updateSettings: the owner of the ImageCompressor  *)
(* may call it at any time, also while compressImage is suspended at an    *)
(* await.                                                                  *)
(***************************************************************************)
\* the Partial<CompressionSettings> arguments of updateSettings
Updates ==
    {[useScaling |-> FALSE],
     [useScaling |-> TRUE, scalePercent |-> 50],
     [useSizeLimits |-> FALSE],
     [useSizeLimits |-> TRUE, maxWidth |-> 2, maxHeight |-> 1],
     [maxWidth |-> 0],
     [enabled |-> FALSE]}

\* { ...this.settings, ...settings }
Merged(s, p) ==
    LET Pick(k) == IF k \in DOMAIN p THEN p[k] ELSE s[k]
    IN  [quality       |-> Pick("quality"),
         useQuality    |-> Pick("useQuality"),
         useScaling    |-> Pick("useScaling"),
         scalePercent  |-> Pick("scalePercent"),
         useSizeLimits |-> Pick("useSizeLimits"),
         maxWidth      |-> Pick("maxWidth"),
         maxHeight     |-> Pick("maxHeight"),
         enabled       |-> Pick("enabled")]

\* updateSettings(p)
UpdateSettings ==
    /\ \E p \in Updates : settings' = Merged(settings, p)
    /\ UNCHANGED <<file, pc, error, calls, log, liveUrls, canResult, entrySettings, outside>>
    /\ UNCHANGED locals

UpdateSettingsSpace ==
    {s \in SettingsSpace({60}, ScalePercents, MaxWidths, MaxHeights) :
        s.useQuality = "true" /\ s.enabled}

InitUpdate == InitOver(UpdateSettingsSpace, GeomFiles)

NextUpdate ==
    \/ UpdateSettings
    \/ Reject
    \/ StartNoProbe
    \/ StartProbe
    \/ StartProbeThrows
    \/ ProbeLoaded
    \/ ProbeError
    \/ Encode1Throws
    \/ Encode1Accepted
    \/ Encode1Retries
    \/ Encode2Throws
    \/ Encode2Adopted
    \/ Encode2Discarded

SpecUpdate == InitUpdate /\ [][NextUpdate]_vars

(***************************************************************************)
(* formatFileSize on its own: a static pure function, called with a byte   *)
(* count.                                                                  *)
(***************************************************************************)
\* n is within FormatSpread of 0, of 1024 and of 1024^2
FormatSpread == 12
\* shift is 0..MaxShift
MaxShift == 2

FormatInputs ==
    {ByteCount(0, 0)}
        \cup {ByteCount(n, shift) :
                n \in (1..FormatSpread)
                        \cup {1152, 1536, 1048064}
                        \cup ((UnitBase - FormatSpread)..(UnitBase + FormatSpread))
                        \cup ((UnitBase * UnitBase - FormatSpread)
                                  ..(UnitBase * UnitBase + FormatSpread)),
                shift \in 0..MaxShift}

\* no call of formatFileSize yet; bytes is the argument of the call to come
InitFormat ==
    /\ InitInvocation({DefaultSettings}, GeomFiles)
    /\ PluginConstructed
    /\ bytes \in FormatInputs
    /\ formatted = ""

\* formatFileSize(bytes)
FormatFileSizeCall ==
    /\ formatted = ""
    /\ formatted' = FormatFileSize(bytes)
    /\ UNCHANGED <<settings, file, pc, error, calls, log, liveUrls, canResult, entrySettings,
                   bytes, config, pluginSettings, upload, originalUploadFunction, ipc,
                   uploadFile, uploaded>>
    /\ UNCHANGED locals

NextFormat == FormatFileSizeCall

SpecFormat == InitFormat /\ [][NextFormat]_vars

(***************************************************************************)
(* The Plugin (src/src/index.tsx): init, destroy and one call of           *)
(* Blinko.store.resourceStore.upload.  A function value is "host" (the     *)
(* upload function of the host) or "interceptor" (an arrow function that   *)
(* interceptFileUpload installed: all of them run the same code on the     *)
(* same Plugin).  compressImage runs as above, from pc = "start".          *)
(***************************************************************************)
\* what getPluginConfig returns: nothing saved, or saved settings
PluginConfigs ==
    {Undefined,
     Some([DefaultSettings EXCEPT !.enabled = FALSE]),
     Some([DefaultSettings EXCEPT !.useScaling = TRUE, !.scalePercent = 50])}

PluginFiles == [type : {"image/jpeg", "text/plain"}, size : {10}]

InitPlugin ==
    /\ settings = DefaultSettings
    /\ pluginSettings = DefaultSettings
    /\ config \in PluginConfigs
    /\ uploadFile \in PluginFiles
    /\ file = uploadFile
    /\ upload = "host"
    /\ originalUploadFunction = "null"
    /\ ipc = "idle"
    /\ uploaded = <<>>
    /\ pc = "idle"
    /\ error = ""
    /\ compressionQuality = 0
    /\ options = Undefined
    /\ shouldAdjustSize = FALSE
    /\ originalDimensions = Undefined
    /\ compressedFile = Undefined
    /\ forcedCompressedFile = Undefined
    /\ result = Undefined
    /\ calls = <<>>
    /\ log = <<>>
    /\ liveUrls = 0
    /\ canResult = "none"
    /\ entrySettings = Undefined
    /\ bytes = ByteCount(0, 0)
    /\ formatted = ""

\* init(): loadSettings, then interceptFileUpload
PluginInit ==
    /\ pc # "start"
    /\ IF IsDefined(config)
       THEN /\ pluginSettings' = Val(config)
            /\ settings' = Merged(settings, Val(config))
       ELSE UNCHANGED <<pluginSettings, settings>>
    /\ originalUploadFunction' = upload
    /\ upload' = "interceptor"
    /\ UNCHANGED <<file, pc, error, calls, log, liveUrls, canResult, entrySettings, bytes,
                   formatted, config, ipc, uploadFile, uploaded>>
    /\ UNCHANGED locals

\* destroy()
PluginDestroy ==
    /\ pc # "start"
    /\ upload' = IF originalUploadFunction # "null" THEN originalUploadFunction ELSE upload
    /\ UNCHANGED <<settings, file, pc, error, calls, log, liveUrls, canResult, entrySettings,
                   bytes, formatted, config, pluginSettings, originalUploadFunction, ipc,
                   uploadFile, uploaded>>
    /\ UNCHANGED locals

\* this.settings.enabled && this.imageCompressor.canCompress(file)
Gate(f) == pluginSettings.enabled /\ CanCompress(settings, f)

\* the host's upload function is called with f
HostUpload(f) ==
    /\ uploaded' = Append(uploaded, f)
    /\ ipc' = "returned"
    /\ UNCHANGED <<file, pc, error, calls, log, entrySettings>>
    /\ UNCHANGED locals

\* the interceptor calls compressImage(f) and awaits it
EnterCompressImage(f) ==
    /\ file' = f
    /\ pc' = "start"
    /\ error' = ""
    /\ compressionQuality' = 0
    /\ options' = Undefined
    /\ shouldAdjustSize' = FALSE
    /\ originalDimensions' = Undefined
    /\ compressedFile' = Undefined
    /\ forcedCompressedFile' = Undefined
    /\ result' = Undefined
    /\ calls' = <<>>
    /\ log' = <<>>
    /\ entrySettings' = Undefined
    /\ ipc' = "compressing"
    /\ UNCHANGED uploaded

\* the function value fn is called with f.  An interceptor whose gate is closed calls
\* this.originalUploadFunction(f) at once: when that is an interceptor too, the calls
\* nest without end and the call stack overflows (the promise is rejected).
Call(fn, f) ==
    /\ IF fn = "host" THEN HostUpload(f)
       ELSE IF Gate(f) THEN EnterCompressImage(f)
       ELSE IF originalUploadFunction = "host" THEN HostUpload(f)
       ELSE /\ ipc' = "overflow"
            /\ UNCHANGED <<file, pc, error, calls, log, entrySettings, uploaded>>
            /\ UNCHANGED locals
    /\ UNCHANGED <<settings, liveUrls, canResult, bytes, formatted, config, pluginSettings,
                   upload, originalUploadFunction, uploadFile>>

\* the host calls Blinko.store.resourceStore.upload(uploadFile)
Upload ==
    /\ ipc = "idle"
    /\ Call(upload, uploadFile)

\* result.compressionRatio < 0.9
RatioBelowNineTenths(r) == 10 * r.compressionRatio.num < 9 * r.compressionRatio.den

\* the argument of this.originalUploadFunction after compressImage settled: the
\* compressed file (given the type of the original when its own differs), or the
\* original when the ratio is not below 0.9 or compressImage threw
UploadArgument ==
    IF pc = "done" /\ RatioBelowNineTenths(Val(result))
    THEN [type |-> file.type, size |-> Val(result).compressedSize]
    ELSE file

\* compressImage settled: the interceptor goes on and calls this.originalUploadFunction
InterceptorResumes ==
    /\ ipc = "compressing"
    /\ pc \in {"done", "failed"}
    /\ Call(originalUploadFunction, UploadArgument)

NextPlugin ==
    \/ PluginInit
    \/ PluginDestroy
    \/ Upload
    \/ InterceptorResumes
    \/ StartNoProbe
    \/ StartProbe
    \/ StartProbeThrows
    \/ ProbeLoaded
    \/ ProbeError
    \/ Encode1Throws
    \/ Encode1Accepted
    \/ Encode1Retries
    \/ Encode2Throws
    \/ Encode2Adopted
    \/ Encode2Discarded

SpecPlugin == InitPlugin /\ [][NextPlugin]_vars

(***************************************************************************)
(* Reading the history                                                     *)
(***************************************************************************)
InLog(e) == \E i \in 1..Len(log) : log[i] = e
Count(e) == Cardinality({i \in 1..Len(log) : log[i] = e})
\* every occurrence of b comes after an occurrence of a
Precedes(a, b) == \A i \in 1..Len(log) : log[i] = b => \E j \in 1..(i - 1) : log[j] = a
\* encoder calls issued and neither returned nor thrown
InFlight ==
    Count("call1") + Count("call2")
        - (Count("return1") + Count("throw1") + Count("return2") + Count("throw2"))

Eligible ==
    /\ settings.enabled
    /\ file.type \in {"image/jpeg", "image/png", "image/webp", "image/gif"}

Done == pc = "done"
Failed == pc = "failed"
Size1 == Val(compressedFile)
Size2 == Val(forcedCompressedFile)
Attempt1Result ==
    [originalSize |-> file.size, compressedSize |-> Size1, attempt |-> 1,
     compressionRatio |-> [num |-> Size1, den |-> file.size]]
Attempt2Result ==
    [originalSize |-> file.size, compressedSize |-> Size2, attempt |-> 2,
     compressionRatio |-> [num |-> Size2, den |-> file.size]]

(***************************************************************************)
(* Claims                                                                  *)
(***************************************************************************)

\* C1: compressImage on an ineligible asset (settings.enabled false, or a type outside
\* the whitelist) fails with the 'not eligible' error before any dimension probe and
\* before any encoder call: it issues no encoder call and creates no probe URL.
C1_IneligibleFailsWithoutEncoding ==
    ~Eligible =>
        /\ calls = <<>>
        /\ liveUrls = 0
        /\ ~InLog("probe") /\ ~InLog("probeThrow") /\ ~InLog("call1")
        /\ pc \in {"start", "failed"}
        /\ Failed => error = NotEligible

C1_Witness ==
    /\ Failed
    /\ error = NotEligible
    /\ settings.enabled
    /\ file.type = "image/bmp"
    /\ settings.useSizeLimits

\* C2: a second encoder call is issued if and only if attempt #1 returned and
\* 10 * size1 >= 9 * originalSize; when the ratio is below 0.9, attempt #1 is the
\* result after exactly one encoder call.
C2_RetryIffRatioAtLeastNineTenths ==
    /\ Len(calls) >= 2 <=> (IsDefined(compressedFile) /\ 10 * Size1 >= 9 * file.size)
    /\ InLog("call2") <=> Len(calls) >= 2
    /\ (IsDefined(compressedFile) /\ 10 * Size1 < 9 * file.size) =>
           /\ Done
           /\ Len(calls) = 1
           /\ result = Some(Attempt1Result)

C2_Witness ==
    /\ pc = "encode2"
    /\ Len(calls) = 2
    /\ 10 * Size1 = 9 * file.size

\* C3: when the retry's encoder call returns, attempt #2 is returned only if
\* size2 < size1 * 0.9; otherwise attempt #2 is discarded and attempt #1's result is
\* returned, although attempt #1's ratio was >= 0.9.
C3_RetryReturnedOnlyIfTenPercentSmaller ==
    (Done /\ IsDefined(forcedCompressedFile)) =>
        /\ Val(result).attempt = 2 => 10 * Size2 < 9 * Size1
        /\ ~(10 * Size2 < 9 * Size1) => result = Some(Attempt1Result)
        /\ 10 * Size1 >= 9 * file.size

C3_Witness ==
    /\ Done
    /\ IsDefined(forcedCompressedFile)
    /\ Size2 < Size1
    /\ ~(10 * Size2 < 9 * Size1)
    /\ result = Some(Attempt1Result)

\* C4 as stated: attempt #2 is the returned result exactly when attempt #2 succeeded
\* and size2 <= 0.9 * size1, the boundary size2 = 0.9 * size1 counting as adopted.
C4_Original_BoundaryAdopted ==
    Done =>
        (Val(result).attempt = 2
            <=> (IsDefined(forcedCompressedFile) /\ 10 * Size2 <= 9 * Size1))

\* C4 (amended): attempt #2 is the returned result exactly when attempt #2 returned
\* and size2 < 0.9 * size1 strictly; at the boundary size2 = 0.9 * size1 attempt #1
\* is returned.
C4_RetryAdoptedIffStrictlyBelowNineTenths ==
    Done =>
        /\ Val(result).attempt = 2
               <=> (IsDefined(forcedCompressedFile) /\ 10 * Size2 < 9 * Size1)
        /\ Val(result).attempt = 2 => result = Some(Attempt2Result)
        /\ (IsDefined(forcedCompressedFile) /\ 10 * Size2 = 9 * Size1)
               => result = Some(Attempt1Result)

C4_Witness ==
    /\ Done
    /\ IsDefined(forcedCompressedFile)
    /\ 10 * Size2 = 9 * Size1
    /\ Val(result).attempt = 1

\* C5: if the encoder throws during the retry, compressImage does not fail: it
\* completes with attempt #1's result unchanged.
C5_RetryErrorSwallowed ==
    InLog("throw2") =>
        /\ Done
        /\ error = ""
        /\ result = Some(Attempt1Result)
        /\ forcedCompressedFile = Undefined

C5_Witness ==
    /\ InLog("throw2")
    /\ Done
    /\ result = Some(Attempt1Result)

\* C6: for an eligible asset, compressImage ends Failed if and only if encoder call
\* #1 throws: a failed probe or a failed retry never gives Failed, and an error of
\* attempt #1 never gives a Done result.
C6_FailedIffAttempt1Throws ==
    Eligible =>
        /\ Failed <=> InLog("throw1")
        /\ Failed => (error = CodecError /\ result = Undefined)
        /\ (InLog("probeError") \/ InLog("probeThrow") \/ InLog("throw2"))
               => (Failed => InLog("throw1"))
        /\ (pc \in {"done", "failed"} /\ ~InLog("throw1")) => (Done /\ IsDefined(result))

C6_Witness ==
    /\ Eligible
    /\ Failed
    /\ InLog("probeError")
    /\ InLog("throw1")

\* C7: within one invocation the events are ordered probe -> encoder call #1
\* completes -> evaluation -> encoder call #2; the two encoder calls are never in
\* flight together and there are never more than two encoder calls.
C7_StrictSequencing ==
    /\ Len(calls) <= 2
    /\ Len(calls) = Count("call1") + Count("call2")
    /\ Count("call1") <= 1 /\ Count("call2") <= 1
    /\ InFlight \in {0, 1}
    /\ InLog("probe") => \A i \in 1..Len(log) :
           log[i] = "call1" => \E j \in 1..(i - 1) : log[j] \in {"loaded", "probeError"}
    /\ Precedes("probe", "loaded") /\ Precedes("probe", "probeError")
    /\ Precedes("call1", "return1")
    /\ Precedes("return1", "eval1")
    /\ Precedes("eval1", "call2")
    /\ Precedes("call2", "return2") /\ Precedes("call2", "throw2")
    /\ pc = "probe" => calls = <<>>
    /\ pc = "encode1" => (Len(calls) = 1 /\ InFlight = 1)
    /\ pc = "encode2" => (Len(calls) = 2 /\ InFlight = 1 /\ IsDefined(compressedFile))

C7_Witness ==
    /\ Done
    /\ log = <<"probe", "loaded", "call1", "return1", "eval1", "call2", "return2", "eval2">>

\* C8: canCompress(file) returns false whenever settings.enabled is false, and
\* otherwise true exactly for the types image/jpeg, image/png, image/webp and
\* image/gif; a call changes no state of the compressor or of an invocation.
C8_CanCompressWhitelist ==
    /\ [](/\ ~settings.enabled => ~CanCompress(settings, file)
          /\ settings.enabled =>
                (CanCompress(settings, file)
                    <=> file.type \in {"image/jpeg", "image/png", "image/webp", "image/gif"})
          /\ canResult = "true" => Eligible
          /\ canResult = "false" => ~Eligible)
    /\ [][canResult' # canResult =>
            UNCHANGED <<settings, file, pc, error, compressionQuality, options,
                        shouldAdjustSize, originalDimensions, compressedFile,
                        forcedCompressedFile, result, calls, log, liveUrls>>]_vars

C8_Witness ==
    /\ canResult = "true"
    /\ file.type = "image/gif"
    /\ pc = "start"

\* the initialQuality of every encode request is at most cap
AllQualitiesAtMost(cap) == \A i \in 1..Len(calls) : calls[i].initialQuality <= cap

\* C9 as stated: for PNG assets the initialQuality of every encode request never
\* exceeds 0.5, for every policy including any setting of useQuality.
C9_Original_PngAtMostHalfAnyPolicy ==
    file.type = "image/png" => AllQualitiesAtMost(50)

\* C9 (amended): for PNG assets the initialQuality of every encode request never
\* exceeds 0.5 whatever policy.quality is, unless policy.useQuality is false: then
\* attempt #1 is sent 1.0 and only the retry stays at or below 0.5.
C9_PngAtMostHalfUnlessQualityOff ==
    file.type = "image/png" =>
        /\ settings.useQuality # "false" => AllQualitiesAtMost(50)
        /\ (settings.useQuality = "false" /\ Len(calls) >= 1) => calls[1].initialQuality = 100
        /\ Len(calls) >= 2 => calls[2].initialQuality <= 50

C9_Witness ==
    /\ file.type = "image/png"
    /\ settings.quality = 100
    /\ settings.useQuality = "undefined"
    /\ file.size = 10
    /\ Len(calls) = 2
    /\ calls[1].initialQuality = 50

\* C10 as stated: for assets above 1 MiB the initialQuality of every encode request
\* never exceeds 0.5, and for assets in (500 KiB, 1 MiB] it never exceeds 0.6.
C10_Original_SizeCapsAnyPolicy ==
    /\ file.size > 1048576 => AllQualitiesAtMost(50)
    /\ (file.size > 512000 /\ file.size <= 1048576) => AllQualitiesAtMost(60)

\* the quality the size rule allows for policy quality q at byte size n
SizeRule(q, n) ==
    IF n > 1048576 THEN (IF q < 50 THEN q ELSE 50)
    ELSE IF n > 512000 THEN (IF q < 60 THEN q ELSE 60)
    ELSE q

\* C10 (amended): unless policy.useQuality is false (attempt #1 is then sent 1.0),
\* the initialQuality of every encode request is at most 0.5 for assets above 1 MiB
\* and at most 0.6 for assets in (500 KiB, 1 MiB]; an asset of exactly 1 MiB falls
\* under the 0.6 cap, an asset of exactly 500 KiB is not capped by size, and a
\* 2 MiB JPEG with policy quality 0.6 and useQuality true is encoded at 0.5.
C10_SizeCapsUnlessQualityOff ==
    /\ settings.useQuality # "false" =>
        /\ file.size > 1048576 => AllQualitiesAtMost(50)
        /\ (file.size > 512000 /\ file.size <= 1048576) => AllQualitiesAtMost(60)
        /\ (Len(calls) >= 1 /\ file.type # "image/png") =>
               calls[1].initialQuality = SizeRule(settings.quality, file.size)
    /\ (settings.useQuality = "false" /\ Len(calls) >= 1) => calls[1].initialQuality = 100

C10_Witness ==
    /\ file = [type |-> "image/jpeg", size |-> 2097152]
    /\ settings.quality = 60
    /\ settings.useQuality = "true"
    /\ ~settings.useScaling
    /\ ~settings.useSizeLimits
    /\ settings.enabled
    /\ Len(calls) >= 1
    /\ calls[1].initialQuality = 50

\* the planned quality of policy quality q for a file of type ty and byte size n
PlannedRule(q, ty, n) ==
    LET c == SizeRule(q, n)
    IN  IF ty = "image/png" /\ c > 50 THEN 50 ELSE c

\* C11: if policy.useQuality is false the quality passed to the encoder in attempt
\* #1 is exactly 1.0 whatever policy.quality, the asset size and the format are; if
\* useQuality is true or absent it is the planned (capped) value.
C11_QualityBypassedOnlyWhenFalse ==
    Len(calls) >= 1 =>
        /\ settings.useQuality = "false" => calls[1].initialQuality = 100
        /\ settings.useQuality \in {"true", "undefined"} =>
               /\ calls[1].initialQuality = PlannedRule(settings.quality, file.type, file.size)
               /\ calls[1].initialQuality = compressionQuality

C11_Witness ==
    /\ Len(calls) >= 1
    /\ settings.useQuality = "undefined"
    /\ settings.quality = 100
    /\ file.type = "image/webp"
    /\ file.size = 1048576
    /\ calls[1].initialQuality = 60

\* the invocation has planned its quality
QualityPlanned == pc \notin {"start"} /\ ~InLog("reject")

\* C12: for every policy with quality in [0.1, 1.0] and every asset size and format
\* the planned quality lies in [0.1, 1.0] and never exceeds policy.quality: the size
\* cap and the PNG cap only lower the value.
C12_PlannedQualityInRange ==
    (QualityPlanned /\ settings.quality >= 10 /\ settings.quality <= 100) =>
        /\ compressionQuality >= 10
        /\ compressionQuality <= 100
        /\ compressionQuality <= settings.quality
        /\ compressionQuality = PlannedRule(settings.quality, file.type, file.size)

C12_Witness ==
    /\ QualityPlanned
    /\ settings.quality = 10
    /\ file.type = "image/png"
    /\ file.size > 1048576
    /\ compressionQuality = 10

\* no encode request carries a resize bound
NoRequestHasBound == \A i \in 1..Len(calls) : calls[i].maxWidthOrHeight = Undefined

\* C13: if useScaling and useSizeLimits are both false no resize is attempted: no
\* dimension probe is made and no encode request, attempt #1 or retry, carries a
\* resize bound (maxWidthOrHeight).
C13_NoResizeWhenBothOff ==
    (~settings.useScaling /\ ~settings.useSizeLimits) =>
        /\ ~InLog("probe")
        /\ ~InLog("probeThrow")
        /\ liveUrls = 0
        /\ NoRequestHasBound

\* floor(4 * max(maxWidth, maxHeight) / 5), the fallback bound of the retry
LimitFallback ==
    (4 * (IF settings.maxWidth >= settings.maxHeight
          THEN settings.maxWidth ELSE settings.maxHeight)) \div 5

Within(a, b) == a.width <= b.width /\ a.height <= b.height

\* the size limits are in force
LimitsApply == settings.useSizeLimits /\ settings.maxWidth # 0 /\ settings.maxHeight # 0

\* C15: dimension planning never increases pixel dimensions: for every original
\* size with width, height > 0 and every policy, the target is at most the original
\* in width and in height after the scaling step and after each clamp.
C15_PlanningNeverEnlarges ==
    InLog("loaded") =>
        LET d == Val(originalDimensions)
            a == Scaled(settings, d)
            b == IF LimitsApply THEN WidthClamped(settings, a) ELSE a
            c == IF LimitsApply THEN HeightClamped(settings, b) ELSE b
        IN  /\ d.width > 0 /\ d.height > 0
            /\ Within(a, d)
            /\ Within(b, a)
            /\ Within(c, b)
            /\ c = Target(settings, d)
            /\ IsDefined(calls[1].maxWidthOrHeight) =>
                   /\ Val(calls[1].maxWidthOrHeight) <= d.width
                          \/ Val(calls[1].maxWidthOrHeight) <= d.height
                   /\ Val(calls[1].maxWidthOrHeight) \in {c.width, c.height}

C15_Witness ==
    /\ InLog("loaded")
    /\ LimitsApply
    /\ Val(originalDimensions) = [width |-> 22, height |-> 22]
    /\ Scaled(settings, Val(originalDimensions)) = [width |-> 21, height |-> 21]
    /\ WidthClamped(settings, Scaled(settings, Val(originalDimensions)))
           = [width |-> 15, height |-> 15]
    /\ Target(settings, Val(originalDimensions)) = [width |-> 3, height |-> 3]

\* the reference procedure of C16, in exact integer arithmetic
RefScaled(d) ==
    IF settings.useScaling /\ settings.scalePercent < 100
    THEN [width  |-> (d.width * settings.scalePercent) \div 100,
          height |-> (d.height * settings.scalePercent) \div 100]
    ELSE d
RefWidth(a) ==
    IF a.width > settings.maxWidth
    THEN [width |-> settings.maxWidth, height |-> (a.height * settings.maxWidth) \div a.width]
    ELSE a
RefHeight(b) ==
    IF b.height > settings.maxHeight
    THEN [width |-> (b.width * settings.maxHeight) \div b.height, height |-> settings.maxHeight]
    ELSE b
RefTarget(d) ==
    IF settings.useSizeLimits THEN RefHeight(RefWidth(RefScaled(d))) ELSE RefScaled(d)

\* C16: the planned target dimensions equal the reference procedure: (1) if
\* useScaling and scalePercent < 100 both dimensions become
\* floor(dimension * scalePercent / 100); (2) if useSizeLimits, first the width check
\* (height := floor(height * maxWidth / width), width := maxWidth), then the height
\* check on the updated values; the width clamp always comes before the height clamp.
\* (Stated for positive maxWidth and maxHeight.)
C16_TargetEqualsReference ==
    (InLog("loaded") /\ settings.maxWidth > 0 /\ settings.maxHeight > 0) =>
        Target(settings, Val(originalDimensions)) = RefTarget(Val(originalDimensions))

\* C17: when the planned target equals the original dimensions attempt #1's encode
\* request carries no resize bound; otherwise its bound is exactly
\* max(target.width, target.height), one longest-edge value.
C17_BoundIsLongestEdgeOfTarget ==
    (Len(calls) >= 1 /\ InLog("loaded")) =>
        LET d == Val(originalDimensions)
            g == Target(settings, d)
        IN  /\ g = d => calls[1].maxWidthOrHeight = Undefined
            /\ g # d =>
                   /\ calls[1].maxWidthOrHeight =
                          Some(IF g.width >= g.height THEN g.width ELSE g.height)
                   /\ ~calls[1].alwaysKeepResolution

C17_Witness ==
    /\ Len(calls) >= 1
    /\ InLog("loaded")
    /\ Val(originalDimensions) = [width |-> 2, height |-> 22]
    /\ Target(settings, Val(originalDimensions)) = [width |-> 1, height |-> 11]
    /\ calls[1].maxWidthOrHeight = Some(11)

\* C18: the quality sent to the encoder in the retry is max(0.1, quality1 - 0.4),
\* quality1 being the quality sent in attempt #1, for every policy, also with
\* useQuality false where quality1 is 1.0.
C18_RetryQualityFromSentQuality ==
    Len(calls) >= 2 =>
        calls[2].initialQuality =
            (IF calls[1].initialQuality - 40 >= 10 THEN calls[1].initialQuality - 40 ELSE 10)

\* C19: the retry's longest-edge bound is floor(bound1 * 0.8) if attempt #1's request
\* carried a resize bound; otherwise floor(max(maxWidth, maxHeight) * 0.8) if
\* useSizeLimits is true; otherwise the retry carries no resize bound.
C19_RetryBound ==
    Len(calls) >= 2 =>
        calls[2].maxWidthOrHeight =
            (IF IsDefined(calls[1].maxWidthOrHeight)
             THEN Some((4 * Val(calls[1].maxWidthOrHeight)) \div 5)
             ELSE IF settings.useSizeLimits THEN Some(LimitFallback)
             ELSE Undefined)

C21_ProbeUrlReleased ==
    /\ (Done \/ Failed) => liveUrls = 0
    /\ liveUrls = (IF pc = "probe" THEN 1 ELSE 0)

C21_Witness ==
    /\ Done
    /\ InLog("probe")
    /\ InLog("probeError")
    /\ liveUrls = 0


\* C28: whenever an encode request (attempt #1 or the retry) carries a resize bound,
\* the bound is an integer >= 1, for every original size with width, height >= 1 and
\* every policy with scalePercent in 10..100 and positive maxWidth and maxHeight: a
\* planned target with a zero dimension never becomes a bound of 0.
C28_BoundAtLeastOne ==
    (/\ settings.scalePercent \in 10..100
     /\ settings.maxWidth > 0
     /\ settings.maxHeight > 0
     /\ IsDefined(originalDimensions) => /\ Val(originalDimensions).width >= 1
                                         /\ Val(originalDimensions).height >= 1)
    => \A i \in 1..Len(calls) :
          IsDefined(calls[i].maxWidthOrHeight) => Val(calls[i].maxWidthOrHeight) >= 1


\* C29: with useSizeLimits true, positive maxWidth and maxHeight and a successful
\* probe, the planned target has width <= maxWidth and height <= maxHeight after both
\* checks (the height check never pushes the width back above maxWidth), hence the
\* resize bound of attempt #1, when present, is <= max(maxWidth, maxHeight).
C29_TargetWithinLimits ==
    (/\ Len(calls) >= 1
     /\ LimitsApply
     /\ IsDefined(originalDimensions)
     /\ Val(originalDimensions) # ProbeFailed)
    => LET t == Target(settings, Val(originalDimensions))
       IN  /\ t.width <= settings.maxWidth
           /\ t.height <= settings.maxHeight
           /\ IsDefined(calls[1].maxWidthOrHeight) =>
                  /\ Val(calls[1].maxWidthOrHeight) = Max(t.width, t.height)
                  /\ Val(calls[1].maxWidthOrHeight) <= Max(settings.maxWidth, settings.maxHeight)

\* both checks act: the width check leaves 15 x 14, the height check then 3 x 3
C29_Witness ==
    /\ Len(calls) >= 1
    /\ LimitsApply
    /\ ~settings.useScaling
    /\ settings.maxWidth = 15
    /\ settings.maxHeight = 3
    /\ IsDefined(originalDimensions)
    /\ Val(originalDimensions) = [width |-> 22, height |-> 22]
    /\ Target(settings, Val(originalDimensions)) = [width |-> 3, height |-> 3]
    /\ calls[1].maxWidthOrHeight = Some(3)

\* the steps of the state machine: start (Start), probe (Planning, awaiting the
\* dimensions), encode1 (Encoding 1), encode2 (Encoding 2), done, failed
PathEdges ==
    {<<"start", "probe">>, <<"start", "encode1">>, <<"start", "failed">>,
     <<"probe", "encode1">>,
     <<"encode1", "done">>, <<"encode1", "encode2">>, <<"encode1", "failed">>,
     <<"encode2", "done">>}

\* C24: every compressImage invocation on an eligible asset eventually reaches a
\* terminal state (Done carrying a CompressionResult, or Failed), provided the probe
\* and each encoder call eventually complete or fail; it moves only along
\* Start -> Planning -> Encoding(1) -> Evaluating -> {Accept | Encoding(2) ->
\* Evaluating2 -> {Accept2 | FallbackToAttempt1}} -> Done, which has no cycle, and an
\* evaluation happens exactly between the return of an attempt and the next step.
C24_Terminates ==
    /\ (pc = "start" /\ Eligible) ~> (Done \/ Failed)
    /\ [](Done => IsDefined(result))
    /\ [][pc' # pc => <<pc, pc'>> \in PathEdges]_vars
    /\ [](Count("eval1") = Count("return1") /\ Count("eval2") = Count("return2"))

\* the longest path: probe, attempt #1, retry, fallback to attempt #1
C24_Witness ==
    /\ Done
    /\ Eligible
    /\ log = <<"probe", "loaded", "call1", "return1", "eval1", "call2", "return2", "eval2">>
    /\ Val(result).attempt = 1


\* C30: a compressImage invocation uses one policy snapshot: when updateSettings is
\* called while the invocation is suspended at the probe or at an encoder call, the
\* scaling, the size limits and the retry bound it uses afterwards are those of the
\* policy in force when it started, so both requests are the ones that policy plans.
C30_PolicySnapshot ==
    IsDefined(entrySettings) =>
        LET atEntry == Val(entrySettings)
            q == PlannedQuality(atEntry, file)
            probed == InLog("loaded") \/ InLog("probeError")
        IN  /\ Len(calls) >= 1 =>
                calls[1] = PlannedOptions(atEntry, InitialOptions(atEntry, file, q),
                                          probed, originalDimensions)
            /\ Len(calls) >= 2 => calls[2] = ForcedOptions(atEntry, calls[1], q)


\* the byte count 1024^i <= bytes < 1024^(i + 1), for bytes = n * 1024^shift
InUnit(b, i) ==
    /\ i >= b.shift
    /\ Pow(1024, i - b.shift) <= b.n
    /\ b.n < Pow(1024, i - b.shift + 1)

\* h hundredths is bytes / 1024^i rounded to 2 decimals: no hundredth is nearer
NearestHundredth(b, i, h) ==
    LET p == Pow(1024, i - b.shift)
        d == h * p - 100 * b.n
    IN  2 * (IF d >= 0 THEN d ELSE -d) <= p

\* C22: formatFileSize(0) is "0 Bytes"; for bytes > 0 it selects the unit index
\* i = floor(log_1024(bytes)) from the sequence Bytes, KB, MB, GB and renders
\* bytes / 1024^i rounded to 2 decimals followed by that unit; formatFileSize(1536) is
\* "1.5 KB" and formatFileSize(1048576) is "1 MB".
C22_FormatRule ==
    formatted # "" =>
        /\ bytes.n = 0 => formatted = "0 Bytes"
        /\ bytes = ByteCount(1536, 0) => formatted = "1.5 KB"
        /\ bytes \in {ByteCount(1048576, 0), ByteCount(1024, 1), ByteCount(1, 2)} =>
              formatted = "1 MB"
        /\ bytes.n > 0 =>
              \E i \in 0..3 :
                  /\ InUnit(bytes, i)
                  /\ \E h \in {(100 * bytes.n) \div Pow(1024, i - bytes.shift),
                               (100 * bytes.n) \div Pow(1024, i - bytes.shift) + 1} :
                        /\ NearestHundredth(bytes, i, h)
                        /\ formatted =
                              NumberText(h) \o " " \o <<"Bytes", "KB", "MB", "GB">>[i + 1]

\* C23: formatFileSize is total over the non-negative integers: for every bytes >= 0,
\* 1024^4 and above included, the selected unit index is one of the four defined
\* units, so the output ends in one of the labels Bytes, KB, MB, GB.
C23_UnitAlwaysDefined ==
    formatted # "" =>
        \/ formatted = "0 Bytes"
        \/ /\ UnitIndex(bytes) \in 0..3
           /\ \E label \in {"Bytes", "KB", "MB", "GB"} :
                 formatted = NumberText(Hundredths(bytes)) \o " " \o label

\* the part of the rule of C22 for counts below 1024^4
FormatRuleBelowTerabyte == UnitIndex(bytes) < 4 => C22_FormatRule


\* compressImage ran for the uploaded file, returned, and the final ratio is below 0.9
CompressionPaysOff ==
    /\ pc = "done"
    /\ file = uploadFile
    /\ 10 * Val(result).compressedSize < 9 * Val(result).originalSize

\* the file the host is to receive for the upload, by the rule of C25
RuleFile ==
    IF CompressionPaysOff
    THEN [type |-> uploadFile.type, size |-> Val(result).compressedSize]
    ELSE uploadFile

\* C25: the upload interceptor passes the compressed file to the host's upload
\* function if and only if compression ran, succeeded and returned a final
\* compressionRatio < 0.9; in every other case (plugin disabled, type not on the
\* whitelist, final ratio >= 0.9, compressImage throwing) it passes the original file
\* unmodified; the file handed to the host is never larger than the original.
C25_InterceptorPassesRuleFile ==
    /\ [](\A i \in 1..Len(uploaded) :
             /\ uploaded[i] = RuleFile
             /\ uploaded[i].size <= uploadFile.size)
    /\ [][InterceptorResumes => uploaded' = Append(uploaded, RuleFile)]_vars
    /\ [][Upload /\ ~Gate(uploadFile) => uploaded' = Append(uploaded, uploadFile)]_vars

\* the same while the function the interceptor falls back to is the host's
RuleFileWhileFallbackIsHost ==
    /\ [](\A i \in 1..Len(uploaded) :
             /\ uploaded[i] = RuleFile
             /\ uploaded[i].size <= uploadFile.size)
    /\ [][InterceptorResumes /\ originalUploadFunction = "host"
            => uploaded' = Append(uploaded, RuleFile)]_vars
    /\ [][Upload /\ ~Gate(uploadFile) /\ originalUploadFunction \in {"null", "host"}
            => uploaded' = Append(uploaded, uploadFile)]_vars

\* C26: for each call of the intercepted upload function the host's original upload
\* function is invoked exactly once, on every path (compressed upload, insufficient
\* compression, compression error, ineligible file): never skipped, never twice.
C26_HostUploadExactlyOnce ==
    /\ [](Len(uploaded) <= 1)
    /\ [](ipc = "returned" => Len(uploaded) = 1)
    /\ [](ipc # "overflow")
    /\ [][InterceptorResumes => Len(uploaded') = 1 /\ ipc' = "returned"]_vars
    /\ [][Upload /\ ~Gate(uploadFile) => Len(uploaded') = 1 /\ ipc' = "returned"]_vars

\* the same while the function the interceptor falls back to is the host's
ExactlyOnceWhileFallbackIsHost ==
    /\ [](Len(uploaded) <= 1)
    /\ [](ipc = "returned" => Len(uploaded) = 1)
    /\ [][InterceptorResumes /\ originalUploadFunction = "host"
            => Len(uploaded') = 1 /\ ipc' = "returned"]_vars
    /\ [][Upload /\ ~Gate(uploadFile) /\ originalUploadFunction \in {"null", "host"}
            => Len(uploaded') = 1 /\ ipc' = "returned"]_vars

\* C27: after any sequence of init and destroy calls that ends with destroy,
\* resourceStore.upload is the function installed before the first init (the host's);
\* and at all times the function the interceptor falls back to,
\* originalUploadFunction, is the host's upload, never an interceptor of this plugin.
C27_DestroyRestoresHostUpload ==
    /\ [](originalUploadFunction \in {"null", "host"})
    /\ [][PluginDestroy => upload' = "host"]_vars


====
